---- MODULE Spec2Model ----
(***************************************************************************)
(* Clinic management back end (Django REST): the patient registry with its *)
(* patient_id allocator (Patient.save) and the visit workflow              *)
(* (VisitViewSet.update_status).                                           *)
(*                                                                         *)
(* The database tables are functions from primary key to row.  A request   *)
(* handler runs in a worker; every database statement of a handler is one  *)
(* step, so that handlers of different workers interleave between their    *)
(* statements exactly as autocommit requests do.  A model instance held in *)
(* a handler's memory between two statements is the field obj / visit of   *)
(* the worker's request record.                                            *)
(*                                                                         *)
(* Strings the code formats and parses (patient_id) are sequences of       *)
(* one-character strings.  Timestamps are ticks of a clock whose tick is   *)
(* one calendar year, the only part of the date the code reads.            *)
(* Of a Patient's columns the model keeps the three the serializer does    *)
(* not let a request write (id, patient_id, registration_date) and one it  *)
(* does (last_visit_date); the other writable columns (names, contacts,    *)
(* status, ...) are written like last_visit_date and read by nothing.      *)
(***************************************************************************)
EXTENDS Integers, Sequences, FiniteSets, TLC

VARIABLES
    patients,       \* table Patient: pk -> row
    visits,         \* table Visit: pk -> row
    history,        \* table MedicalHistory: pk -> row
    nextPatientPk,  \* AutoField sequence of Patient
    nextVisitPk,    \* AutoField sequence of Visit
    nextHistoryPk,  \* AutoField sequence of MedicalHistory
    now,            \* the clock (timezone.now(), date.today())
    start,          \* settings.PATIENT_ID_START
    req,            \* worker -> the request it handles (pc, arguments, instance in memory)
    response,       \* the last response sent: the endpoint and the HTTP status
    issued,         \* bookkeeping: every patient_id a create has stored so far
    events          \* bookkeeping: the number of requests received and clock ticks so far

vars ==
    <<patients, visits, history, nextPatientPk, nextVisitPk, nextHistoryPk, now, start,
      req, response, issued, events>>

----------------------------------------------------------------------------
(* Bounds of the model *)

MaxPatients == 2    \* Patient rows ever inserted
MaxVisits == 1      \* Visit rows ever inserted
MaxEvents == 4      \* requests received and ticks of the clock
MaxRaceCalls == 2   \* update_status requests of the two racing workers
MaxHistory == 2     \* MedicalHistory rows ever inserted

BaseYear == 2024    \* year of tick 0

Workers == {"w1", "w2"}         \* concurrent request handlers
Rank == [w1 |-> 1, w2 |-> 2]    \* the order in which idle workers are handed requests
StartChoices == {1, 999}    \* configurations of PATIENT_ID_START

----------------------------------------------------------------------------
(* Text: decimal formatting and parsing, as Python's format and int do *)

DigitChar == <<"0", "1", "2", "3", "4", "5", "6", "7", "8", "9">>

DigitVal(c) == (CHOOSE i \in 1..10 : DigitChar[i] = c) - 1

RECURSIVE Digits(_)
Digits(n) ==
    IF n < 10 THEN <<DigitChar[n + 1]>>
    ELSE Digits(n \div 10) \o <<DigitChar[(n % 10) + 1]>>

RECURSIVE ZeroPad(_, _)
ZeroPad(s, width) ==
    IF Len(s) >= width THEN s ELSE ZeroPad(<<"0">> \o s, width)

RECURSIVE ParseInt(_)
ParseInt(s) ==
    IF s = <<>> THEN 0
    ELSE 10 * ParseInt(SubSeq(s, 1, Len(s) - 1)) + DigitVal(s[Len(s)])

\* s.split('-')[-1]
LastSegment(s) ==
    LET dashes == {i \in 1..Len(s) : s[i] = "-"}
        from == IF dashes = {} THEN 1
                ELSE (CHOOSE i \in dashes : \A j \in dashes : j <= i) + 1
    IN  SubSeq(s, from, Len(s))

Year(t) == BaseYear + t

\* f"P-{year}-{new_id_num:03d}"
FormatPatientId(year, new_id_num) ==
    <<"P", "-">> \o Digits(year) \o <<"-">> \o ZeroPad(Digits(new_id_num), 3)

----------------------------------------------------------------------------
(* Patient *)

Stored(table) == DOMAIN table

\* Patient.objects.all().order_by('id').last(): the pk of the last row
LastPk(table) == CHOOSE k \in Stored(table) : \A j \in Stored(table) : j <= k

\* models.py 145-150: the number of the next patient_id
NewIdNum(table, base) ==
    IF Stored(table) # {}
    THEN ParseInt(LastSegment(table[LastPk(table)].patient_id)) + 1
    ELSE base

\* variant of NeedsPatientId: every save allocates
AlwaysAllocate(obj) == TRUE

\* `if not self.patient_id`
NeedsPatientId(obj) == obj.patient_id = <<>>

\* variant of PreSave: the last row counts only when its patient_id is of the
\* current year
PreSaveYearScoped(obj, table, base, t) ==
    IF NeedsPatientId(obj)
    THEN [obj EXCEPT !.patient_id =
            FormatPatientId(Year(t),
                IF Stored(table) # {}
                   /\ SubSeq(table[LastPk(table)].patient_id, 3, 6) = Digits(Year(t))
                THEN NewIdNum(table, base) ELSE base)]
    ELSE obj

\* Patient.save up to the call of super().save(): allocates when the
\* instance has no patient_id
PreSave(obj, table, base, t) ==
    IF NeedsPatientId(obj)
    THEN [obj EXCEPT !.patient_id = FormatPatientId(Year(t), NewIdNum(table, base))]
    ELSE obj

\* variant of UniqueOk: no unique constraint
NoUniqueCheck(table, pk, obj) == TRUE

\* unique=True on patient_id: the row may be written under pk
UniqueOk(table, pk, obj) ==
    \A k \in Stored(table) : k # pk => table[k].patient_id # obj.patient_id

\* a new instance built by the serializer from a valid draft
NewPatient ==
    [patient_id |-> <<>>, registration_date |-> 0, last_visit_date |-> {}]

Put(table, pk, row) == [k \in Stored(table) \cup {pk} |-> IF k = pk THEN row ELSE table[k]]

Remove(table, pks) == [k \in Stored(table) \ pks |-> table[k]]

\* super().save(): UPDATE the row of the instance's pk, INSERT it when no row
\* has that pk (auto_now_add stamps registration_date on INSERT only).
\* [ok |-> FALSE] is the IntegrityError of the unique constraint.
SuperSave(table, pk, obj, t) ==
    IF ~UniqueOk(table, pk, obj) THEN [ok |-> FALSE, table |-> table]
    ELSE IF pk \in Stored(table) THEN [ok |-> TRUE, table |-> Put(table, pk, obj)]
    ELSE [ok |-> TRUE, table |-> Put(table, pk, [obj EXCEPT !.registration_date = t])]

\* Patient.save of an instance that was loaded or saved before
PatientSave(table, pk, obj, base, t) == SuperSave(table, pk, PreSave(obj, table, base, t), t)

\* PatientSerializer.Meta.read_only_fields
ReadOnlyFields == {"id", "patient_id", "registration_date", "created_at", "updated_at"}

\* serializer.update: the writable fields of the request replace the instance's
ApplyPatch(obj, patch) ==
    IF patch.field \in ReadOnlyFields \/ patch.field \notin DOMAIN obj THEN obj
    ELSE [obj EXCEPT ![patch.field] = patch.value]

\* the single-field PATCH bodies the model sends
Patches(t) ==
    {[field |-> "last_visit_date", value |-> {t}],
     [field |-> "patient_id", value |-> FormatPatientId(Year(t), 7)],
     [field |-> "registration_date", value |-> t + 1]}

----------------------------------------------------------------------------
(* Visit *)

StatusFields ==
    {"checked_in", "triage_completed", "consultation_completed",
     "lab_completed", "pharmacy_completed", "billing_completed"}

Flags == StatusFields \cup {"visit_completed"}

\* Visit's defaults, for patient pk
NewVisit(pk) ==
    [patient |-> pk, checked_in |-> FALSE, triage_completed |-> FALSE,
     consultation_completed |-> FALSE, lab_completed |-> FALSE,
     pharmacy_completed |-> FALSE, billing_completed |-> FALSE,
     visit_completed |-> FALSE]

\* on_delete=CASCADE: the visits of patient pk
VisitsOf(table, pk) == {v \in Stored(table) : table[v].patient = pk}

\* on_delete=CASCADE: the medical records of the patients pks and of the
\* visits vpks
RecordsOf(table, pks, vpks) ==
    {h \in Stored(table) : table[h].patient \in pks \/ table[h].visit \in vpks}

----------------------------------------------------------------------------
(* Requests *)

Idle ==
    [pc |-> "idle", op |-> "none", pk |-> 0, obj |-> NewPatient,
     visit |-> NewVisit(0), arg |-> <<>>]

\* worker p takes a request: the idle worker of the lowest rank (workers are
\* interchangeable, so which idle worker serves a request changes nothing)
Free(p) ==
    /\ req[p].pc = "idle"
    /\ \A q \in Workers : req[q].pc = "idle" => Rank[p] <= Rank[q]
    /\ events < MaxEvents
    /\ events' = events + 1

\* the handler of worker p goes on, or ends with a response
Continue(p, r) ==
    /\ req' = [req EXCEPT ![p] = r]
    /\ UNCHANGED response

Respond(p, op, status) ==
    /\ req' = [req EXCEPT ![p] = Idle]
    /\ response' = [op |-> op, status |-> status]


Request(op, pk, arg) == [Idle EXCEPT !.op = op, !.pk = pk, !.arg = arg]

\* handlers in flight that will still INSERT a Patient / a Visit
PendingPatients == Cardinality({q \in Workers : req[q].op = "create" /\ req[q].pc = "insert"})

PendingVisits ==
    Cardinality({q \in Workers :
        \/ req[q].op = "create" /\ req[q].pc \in {"insert", "visit"} /\ req[q].arg.visit_data = "valid"
        \/ req[q].op = "check_in" /\ req[q].pc = "visit" /\ req[q].arg.reason_ok})

VisitRoom == nextVisitPk + PendingVisits <= MaxVisits

----------------------------------------------------------------------------
(* PatientViewSet.create *)

\* request.data.get('visit'): absent (or falsy), an object the VisitSerializer
\* accepts, an object it rejects, or a truthy value that is no object (a
\* string, a number, a non-empty list), on which line 46's item assignment
\* raises TypeError
VisitDrafts == {"none", "valid", "invalid", "malformed"}

\* is_valid, then serializer.save() -> Patient.save up to super().save()
CreateAllocate(p, valid, visit_data) ==
    /\ Free(p)
    /\ IF ~valid
       THEN Respond(p, "create", 400)
       ELSE /\ nextPatientPk + PendingPatients <= MaxPatients
            /\ visit_data = "valid" => VisitRoom
            /\ Continue(p, [Request("create", 0, [visit_data |-> visit_data])
                             EXCEPT !.pc = "insert",
                                    !.obj = PreSave(NewPatient, patients, start, now)])
    /\ UNCHANGED <<patients, visits, nextPatientPk, nextVisitPk, now, start, history, nextHistoryPk, issued>>

\* super().save() of the new instance: INSERT
CreateInsert(p) ==
    /\ req[p].op = "create" /\ req[p].pc = "insert"
    /\ IF UniqueOk(patients, nextPatientPk, req[p].obj)
       THEN LET row == [req[p].obj EXCEPT !.registration_date = now]
            IN  /\ patients' = Put(patients, nextPatientPk, row)
                /\ nextPatientPk' = nextPatientPk + 1
                /\ issued' = issued \cup {row.patient_id}
                /\ IF req[p].arg.visit_data = "none"
                   THEN Respond(p, "create", 201)
                   ELSE Continue(p, [req[p] EXCEPT !.pc = "visit", !.pk = nextPatientPk, !.obj = row])
       ELSE /\ Respond(p, "create", 500)
            /\ UNCHANGED <<patients, nextPatientPk, issued>>
    /\ UNCHANGED <<visits, nextVisitPk, now, start, history, nextHistoryPk, events>>

\* visit_data['patient'] = patient.id (the unhandled TypeError is a 500),
\* visit_serializer.is_valid() and visit_serializer.save()
CreateVisit(p) ==
    /\ req[p].op = "create" /\ req[p].pc = "visit"
    /\ IF req[p].arg.visit_data = "malformed"
       THEN /\ Respond(p, "create", 500)
            /\ UNCHANGED <<visits, nextVisitPk>>
       ELSE IF req[p].arg.visit_data = "valid" /\ req[p].pk \in Stored(patients)
       THEN /\ visits' = Put(visits, nextVisitPk, NewVisit(req[p].pk))
            /\ nextVisitPk' = nextVisitPk + 1
            /\ Continue(p, [req[p] EXCEPT !.pc = "resave"])
       ELSE /\ Respond(p, "create", 201)
            /\ UNCHANGED <<visits, nextVisitPk>>
    /\ UNCHANGED <<patients, nextPatientPk, now, start, history, nextHistoryPk, issued, events>>

\* patient.last_visit_date = timezone.now(); patient.save()
SaveLastVisit(p) ==
    LET obj == [req[p].obj EXCEPT !.last_visit_date = {now}]
        s == PatientSave(patients, req[p].pk, obj, start, now)
    IN  /\ patients' = s.table
        /\ Respond(p, req[p].op, IF s.ok THEN 201 ELSE 500)
        /\ UNCHANGED <<visits, nextPatientPk, nextVisitPk, now, start, history, nextHistoryPk, issued, events>>

CreateResave(p) ==
    /\ req[p].op = "create" /\ req[p].pc = "resave"
    /\ SaveLastVisit(p)

----------------------------------------------------------------------------
(* PatientViewSet.check_in *)

\* variant of CheckInVisitData: the visit is created with the defaults
CheckInDefaults(pk) == NewVisit(pk)

\* views.py 82-87: visit_data, the only fields check_in hands to the serializer
CheckInVisitData(pk) == [NewVisit(pk) EXCEPT !.checked_in = TRUE]

CheckInGet(p, pk, reason_ok) ==
    /\ Free(p)
    /\ IF pk \in Stored(patients)
       THEN /\ reason_ok => VisitRoom
            /\ Continue(p, [Request("check_in", pk, [reason_ok |-> reason_ok])
                             EXCEPT !.pc = "visit", !.obj = patients[pk]])
       ELSE Respond(p, "check_in", 404)
    /\ UNCHANGED <<patients, visits, nextPatientPk, nextVisitPk, now, start, history, nextHistoryPk, issued>>

CheckInVisit(p) ==
    /\ req[p].op = "check_in" /\ req[p].pc = "visit"
    /\ IF req[p].arg.reason_ok /\ req[p].pk \in Stored(patients)
       THEN /\ visits' = Put(visits, nextVisitPk, CheckInVisitData(req[p].pk))
            /\ nextVisitPk' = nextVisitPk + 1
            /\ Continue(p, [req[p] EXCEPT !.pc = "resave"])
       ELSE /\ Respond(p, "check_in", 400)
            /\ UNCHANGED <<visits, nextVisitPk>>
    /\ UNCHANGED <<patients, nextPatientPk, now, start, history, nextHistoryPk, issued, events>>

CheckInResave(p) ==
    /\ req[p].op = "check_in" /\ req[p].pc = "resave"
    /\ SaveLastVisit(p)

----------------------------------------------------------------------------
(* PatientViewSet update / partial_update / destroy (ModelViewSet) *)

UpdateGet(p, pk, patch) ==
    /\ Free(p)
    /\ IF pk \in Stored(patients)
       THEN Continue(p, [Request("update", pk, [patch |-> patch])
                          EXCEPT !.pc = "save", !.obj = patients[pk]])
       ELSE Respond(p, "update", 404)
    /\ UNCHANGED <<patients, visits, nextPatientPk, nextVisitPk, now, start, history, nextHistoryPk, issued>>

UpdateSave(p) ==
    /\ req[p].op = "update" /\ req[p].pc = "save"
    /\ LET obj == ApplyPatch(req[p].obj, req[p].arg.patch)
           s == PatientSave(patients, req[p].pk, obj, start, now)
       IN  /\ patients' = s.table
           /\ Respond(p, "update", IF s.ok THEN 200 ELSE 500)
    /\ UNCHANGED <<visits, nextPatientPk, nextVisitPk, now, start, history, nextHistoryPk, issued, events>>

Destroy(p, pk) ==
    /\ Free(p)
    /\ IF pk \in Stored(patients)
       THEN /\ patients' = Remove(patients, {pk})
            /\ visits' = Remove(visits, VisitsOf(visits, pk))
            /\ history' = Remove(history, RecordsOf(history, {pk}, VisitsOf(visits, pk)))
            /\ Respond(p, "destroy", 204)
       ELSE /\ Respond(p, "destroy", 404)
            /\ UNCHANGED <<patients, visits, history>>
    /\ UNCHANGED <<nextPatientPk, nextVisitPk, nextHistoryPk, now, start, issued>>

----------------------------------------------------------------------------
(* VisitViewSet create / update / partial_update / destroy (ModelViewSet) *)

\* the request bodies of a Visit for patient pk: VisitSerializer lets a
\* request write every one of the seven flags
VisitData(pk) ==
    {[NewVisit(pk) EXCEPT !.checked_in = c, !.triage_completed = t,
                          !.consultation_completed = n, !.lab_completed = l,
                          !.pharmacy_completed = m, !.billing_completed = b,
                          !.visit_completed = v] :
        c \in BOOLEAN, t \in BOOLEAN, n \in BOOLEAN, l \in BOOLEAN,
        m \in BOOLEAN, b \in BOOLEAN, v \in BOOLEAN}

\* the single-flag PATCH bodies
VisitPatches == {[field |-> f, value |-> v] : f \in Flags, v \in BOOLEAN}

\* is_valid (the patient exists, reason_for_visit is given) and INSERT
VisitCreate(p, data, reason_ok) ==
    /\ Free(p)
    /\ IF reason_ok /\ data.patient \in Stored(patients)
       THEN /\ VisitRoom
            /\ visits' = Put(visits, nextVisitPk, data)
            /\ nextVisitPk' = nextVisitPk + 1
            /\ Respond(p, "visit_create", 201)
       ELSE /\ Respond(p, "visit_create", 400)
            /\ UNCHANGED <<visits, nextVisitPk>>
    /\ UNCHANGED <<patients, nextPatientPk, now, start, history, nextHistoryPk, issued>>

VisitUpdateGet(p, pk, patch) ==
    /\ Free(p)
    /\ IF pk \in Stored(visits)
       THEN Continue(p, [Request("visit_update", pk, [patch |-> patch])
                          EXCEPT !.pc = "save", !.visit = visits[pk]])
       ELSE Respond(p, "visit_update", 404)
    /\ UNCHANGED <<patients, visits, nextPatientPk, nextVisitPk, now, start, history, nextHistoryPk, issued>>

\* Visit.save(): UPDATE the row, INSERT it when it is gone
VisitUpdateSave(p) ==
    /\ req[p].op = "visit_update" /\ req[p].pc = "save"
    /\ visits' = Put(visits, req[p].pk, ApplyPatch(req[p].visit, req[p].arg.patch))
    /\ Respond(p, "visit_update", 200)
    /\ UNCHANGED <<patients, nextPatientPk, nextVisitPk, now, start, history, nextHistoryPk, issued, events>>

VisitDestroy(p, pk) ==
    /\ Free(p)
    /\ IF pk \in Stored(visits)
       THEN /\ visits' = Remove(visits, {pk})
            /\ history' = Remove(history, RecordsOf(history, {}, {pk}))
            /\ Respond(p, "visit_destroy", 204)
       ELSE /\ Respond(p, "visit_destroy", 404)
            /\ UNCHANGED <<visits, history>>
    /\ UNCHANGED <<patients, nextPatientPk, nextVisitPk, nextHistoryPk, now, start, issued>>

----------------------------------------------------------------------------
(* VisitViewSet.update_status *)

\* variant of ValidStatusFields: visit_completed is accepted too
AcceptsAnyFlag == Flags

\* views.py 150-151: the names update_status accepts
ValidStatusFields == StatusFields

\* variant of AllStagesDone: lab_completed gates the completion too
AllStagesWithLab(visit) ==
    /\ visit.checked_in /\ visit.triage_completed /\ visit.consultation_completed
    /\ visit.lab_completed /\ visit.billing_completed

\* views.py 155-160: all([...])
AllStagesDone(visit) ==
    /\ visit.checked_in
    /\ visit.triage_completed
    /\ visit.consultation_completed
    /\ visit.billing_completed

\* variant of SetStage: visit_completed is computed anew by every call
SetStageRecompute(visit, status_field, status_value) ==
    LET set == [visit EXCEPT ![status_field] = status_value]
    IN  [set EXCEPT !.visit_completed = AllStagesDone(set)]

\* views.py 152-161: setattr, then the auto-completion
SetStage(visit, status_field, status_value) ==
    LET set == [visit EXCEPT ![status_field] = status_value]
    IN  IF AllStagesDone(set) THEN [set EXCEPT !.visit_completed = TRUE] ELSE set

\* the names the model sends as status_field; "" is a request without one
StatusFieldNames == Flags \cup {"status", ""}

\* get_object, and the request's status_field and status_value
UpdateStatusGet(p, pk, status_field, status_value) ==
    /\ Free(p)
    /\ IF pk \in Stored(visits)
       THEN Continue(p, [Request("update_status", pk,
                                 [status_field |-> status_field, status_value |-> status_value])
                          EXCEPT !.pc = "save", !.visit = visits[pk]])
       ELSE Respond(p, "update_status", 404)
    /\ UNCHANGED <<patients, visits, nextPatientPk, nextVisitPk, now, start, history, nextHistoryPk, issued>>

\* an accepted name: setattr, auto-completion, visit.save(); any other: 400
UpdateStatusSave(p) ==
    /\ req[p].op = "update_status" /\ req[p].pc = "save"
    /\ IF req[p].arg.status_field \in ValidStatusFields
       THEN /\ visits' = Put(visits, req[p].pk,
                             SetStage(req[p].visit, req[p].arg.status_field, req[p].arg.status_value))
            /\ Respond(p, "update_status", 200)
       ELSE /\ Respond(p, "update_status", 400)
            /\ UNCHANGED visits
    /\ UNCHANGED <<patients, nextPatientPk, nextVisitPk, now, start, history, nextHistoryPk, issued, events>>

----------------------------------------------------------------------------
(* MedicalHistoryViewSet create / update / partial_update / destroy        *)
(* (ModelViewSet), each handler in one step                                *)

\* visit is null=True, blank=True: a record without a Visit
NoVisit == 0

\* MedicalHistorySerializer.is_valid: the two PrimaryKeyRelatedFields resolve
\* (each on its own: there is no validate() that compares them) and the
\* required texts are given
HistoryValid(row, fields_ok) ==
    /\ fields_ok
    /\ row.patient \in Stored(patients)
    /\ row.visit = NoVisit \/ row.visit \in Stored(visits)

HistoryCreate(p, patient, visit, fields_ok) ==
    /\ Free(p)
    /\ LET row == [patient |-> patient, visit |-> visit]
       IN  IF HistoryValid(row, fields_ok)
           THEN /\ nextHistoryPk <= MaxHistory
                /\ history' = Put(history, nextHistoryPk, row)
                /\ nextHistoryPk' = nextHistoryPk + 1
                /\ Respond(p, "history_create", 201)
           ELSE /\ Respond(p, "history_create", 400)
                /\ UNCHANGED <<history, nextHistoryPk>>
    /\ UNCHANGED <<patients, visits, nextPatientPk, nextVisitPk, now, start, issued>>

\* the single-field PATCH bodies: both foreign keys are writable
HistoryPatches(pks, vpks) ==
    {[field |-> "patient", value |-> k] : k \in pks}
        \cup {[field |-> "visit", value |-> v] : v \in vpks \cup {NoVisit}}

HistoryUpdate(p, pk, patch) ==
    /\ Free(p)
    /\ IF pk \notin Stored(history)
       THEN /\ Respond(p, "history_update", 404)
            /\ UNCHANGED history
       ELSE LET row == [history[pk] EXCEPT ![patch.field] = patch.value]
            IN  IF HistoryValid(row, TRUE)
                THEN /\ history' = Put(history, pk, row)
                     /\ Respond(p, "history_update", 200)
                ELSE /\ Respond(p, "history_update", 400)
                     /\ UNCHANGED history
    /\ UNCHANGED <<patients, visits, nextPatientPk, nextVisitPk, nextHistoryPk, now, start, issued>>

HistoryDestroy(p, pk) ==
    /\ Free(p)
    /\ IF pk \in Stored(history)
       THEN /\ history' = Remove(history, {pk})
            /\ Respond(p, "history_destroy", 204)
       ELSE /\ Respond(p, "history_destroy", 404)
            /\ UNCHANGED history
    /\ UNCHANGED <<patients, visits, nextPatientPk, nextVisitPk, nextHistoryPk, now, start, issued>>

----------------------------------------------------------------------------
(* The clock *)

Tick ==
    /\ events < MaxEvents
    /\ events' = events + 1
    /\ now' = now + 1
    /\ UNCHANGED <<patients, visits, nextPatientPk, nextVisitPk, start, history, nextHistoryPk, req, response, issued>>

----------------------------------------------------------------------------
(* The registry: two workers serve the patient endpoints *)

Empty == [k \in {} |-> NewPatient]

Init ==
    /\ patients = Empty
    /\ visits = Empty
    /\ nextPatientPk = 1
    /\ nextVisitPk = 1
    /\ history = Empty
    /\ nextHistoryPk = 1
    /\ now = 0
    /\ start \in StartChoices
    /\ req = [p \in Workers |-> Idle]
    /\ response = [op |-> "none", status |-> 0]
    /\ issued = {}
    /\ events = 0

PatientPks == 1..MaxPatients

Next ==
    \/ \E p \in Workers, valid \in BOOLEAN, visit_data \in VisitDrafts :
          CreateAllocate(p, valid, visit_data)
    \/ \E p \in Workers : CreateInsert(p)
    \/ \E p \in Workers : CreateVisit(p)
    \/ \E p \in Workers : CreateResave(p)
    \/ \E p \in Workers, pk \in PatientPks, reason_ok \in BOOLEAN : CheckInGet(p, pk, reason_ok)
    \/ \E p \in Workers : CheckInVisit(p)
    \/ \E p \in Workers : CheckInResave(p)
    \/ \E p \in Workers, pk \in PatientPks, patch \in Patches(now) : UpdateGet(p, pk, patch)
    \/ \E p \in Workers : UpdateSave(p)
    \/ \E p \in Workers, pk \in PatientPks : Destroy(p, pk)
    \/ Tick

Spec == Init /\ [][Next]_vars

----------------------------------------------------------------------------
(* The visit workflow: one patient is registered, one worker serves the    *)
(* visit endpoints, one request after the other                            *)

Registered(base) ==
    Put(Empty, 1, PreSave(NewPatient, Empty, base, 0))

InitVisit ==
    /\ start \in StartChoices
    /\ patients = Registered(start)
    /\ visits = Empty
    /\ nextPatientPk = 2
    /\ nextVisitPk = 1
    /\ history = Empty
    /\ nextHistoryPk = 1
    /\ now = 0
    /\ req = [p \in Workers |-> Idle]
    /\ response = [op |-> "create", status |-> 201]
    /\ issued = {patients[1].patient_id}
    /\ events = 0

VisitPks == 1..MaxVisits

VisitRequest(p) ==
    \/ \E data \in VisitData(1), reason_ok \in BOOLEAN : VisitCreate(p, data, reason_ok)
    \/ \E pk \in VisitPks, patch \in VisitPatches : VisitUpdateGet(p, pk, patch)
    \/ \E pk \in VisitPks, f \in StatusFieldNames, v \in BOOLEAN : UpdateStatusGet(p, pk, f, v)
    \/ \E pk \in VisitPks : VisitDestroy(p, pk)

NextVisit ==
    \/ VisitRequest("w1")
    \/ VisitUpdateSave("w1")
    \/ UpdateStatusSave("w1")

SpecVisit == InitVisit /\ [][NextVisit]_vars

----------------------------------------------------------------------------
(* update_status alone: a Visit in any of its states, and one worker that  *)
(* serves update_status requests for it, one after the other               *)

InitStage ==
    /\ start \in StartChoices
    /\ patients = Registered(start)
    /\ visits \in {Put(Empty, 1, data) : data \in VisitData(1)}
    /\ nextPatientPk = 2
    /\ nextVisitPk = 2
    /\ history = Empty
    /\ nextHistoryPk = 1
    /\ now = 0
    /\ req = [p \in Workers |-> Idle]
    /\ response = [op |-> "visit_create", status |-> 201]
    /\ issued = {patients[1].patient_id}
    /\ events = 0

StageRequest(p) ==
    \E pk \in Stored(visits), f \in StatusFieldNames, v \in BOOLEAN : UpdateStatusGet(p, pk, f, v)

NextStage ==
    \/ StageRequest("w1")
    \/ UpdateStatusSave("w1")

SpecStage == InitStage /\ [][NextStage]_vars

----------------------------------------------------------------------------
(* update_status from a Visit that is not completed: visit_completed       *)
(* becomes true by the auto-completion only                                *)

InitSticky ==
    /\ start \in StartChoices
    /\ patients = Registered(start)
    /\ visits \in {Put(Empty, 1, data) : data \in {d \in VisitData(1) : ~d.visit_completed}}
    /\ history = Empty
    /\ nextPatientPk = 2
    /\ nextVisitPk = 2
    /\ nextHistoryPk = 1
    /\ now = 0
    /\ req = [p \in Workers |-> Idle]
    /\ response = [op |-> "visit_create", status |-> 201]
    /\ issued = {patients[1].patient_id}
    /\ events = 0

SpecSticky == InitSticky /\ [][NextStage]_vars

----------------------------------------------------------------------------
(* update_status under concurrency: the same Visit, and two workers that   *)
(* serve MaxRaceCalls update_status requests for it between them           *)

NextRace ==
    \/ \E p \in Workers : events < MaxRaceCalls /\ StageRequest(p)
    \/ \E p \in Workers : UpdateStatusSave(p)

SpecRace == InitStage /\ [][NextRace]_vars

----------------------------------------------------------------------------
(* The medical history: two patients are registered, one worker serves the *)
(* visit and medical-history endpoints, one request after the other        *)

RegisteredTwo(base) ==
    Put(Registered(base), 2, PreSave(NewPatient, Registered(base), base, 0))

InitHistory ==
    /\ start \in StartChoices
    /\ patients = RegisteredTwo(start)
    /\ visits = Empty
    /\ history = Empty
    /\ nextPatientPk = 3
    /\ nextVisitPk = 1
    /\ nextHistoryPk = 1
    /\ now = 0
    /\ req = [p \in Workers |-> Idle]
    /\ response = [op |-> "create", status |-> 201]
    /\ issued = {patients[1].patient_id, patients[2].patient_id}
    /\ events = 0

HistoryPks == 1..MaxHistory

NextHistory ==
    \/ \E pk \in PatientPks : VisitCreate("w1", NewVisit(pk), TRUE)
    \/ \E pk \in VisitPks : VisitDestroy("w1", pk)
    \/ \E k \in PatientPks, v \in VisitPks \cup {NoVisit}, fields_ok \in BOOLEAN :
          HistoryCreate("w1", k, v, fields_ok)
    \/ \E pk \in HistoryPks, patch \in HistoryPatches(PatientPks, VisitPks) :
          HistoryUpdate("w1", pk, patch)
    \/ \E pk \in HistoryPks : HistoryDestroy("w1", pk)

SpecHistory == InitHistory /\ [][NextHistory]_vars

----------------------------------------------------------------------------
(* Properties *)

\* worker p ends, in this step, the statement it was at
Step(p, op, pc) == req[p].op = op /\ req[p].pc = pc /\ req'[p] # req[p]

Creating == {p \in Workers : req[p].op = "create" /\ req[p].pc = "insert"}

\* C1: allocation is serialized: no two creates in flight hold the same
\* computed patient_id, and no create of a valid draft is left with a
\* patient_id that a stored row has (its INSERT is the IntegrityError of the
\* unique constraint, and the create ends without a Patient).
C1_AllocationSerialized ==
    /\ \A p, q \in Creating : p # q => req[p].obj.patient_id # req[q].obj.patient_id
    /\ \A p \in Creating : UniqueOk(patients, nextPatientPk, req[p].obj)

\* C2: no two stored Patient rows have the same patient_id.
C2_UniquePatientId ==
    \A j, k \in Stored(patients) : j # k => patients[j].patient_id # patients[k].patient_id

C2_Witness ==
    /\ Cardinality(Stored(patients)) = 2
    /\ response.op = "create"

\* C3: the patient_id a create stores was never issued before, also not to a
\* Patient that has been deleted since.
C3_NeverRecycled ==
    [][nextPatientPk' # nextPatientPk => patients'[nextPatientPk].patient_id \notin issued]_vars

\* the four gating flags
Gates(visit) ==
    /\ visit.checked_in /\ visit.triage_completed
    /\ visit.consultation_completed /\ visit.billing_completed

\* C4: a stored Visit with visit_completed has checked_in, triage_completed,
\* consultation_completed and billing_completed.
C4_CompletedImpliesGates ==
    \A v \in Stored(visits) : visits[v].visit_completed => Gates(visits[v])

\* C5: update_status with an accepted name and the value true, on a Visit
\* that is not completed, leaves visit_completed true exactly when the four
\* gating flags are true in the row it stores, whatever lab_completed and
\* pharmacy_completed are.
C5_AutoCompletion ==
    [][\A p \in Workers :
          ( /\ Step(p, "update_status", "save")
            /\ req[p].arg.status_field \in StatusFields
            /\ req[p].arg.status_value = TRUE
            /\ req[p].pk \in Stored(visits)
            /\ ~visits[req[p].pk].visit_completed )
          => /\ req[p].pk \in Stored(visits')
             /\ visits'[req[p].pk].visit_completed <=> Gates(visits'[req[p].pk])]_vars

C5_Witness ==
    /\ response = [op |-> "update_status", status |-> 200]
    /\ events = 1
    /\ 1 \in Stored(visits)
    /\ visits[1].visit_completed /\ Gates(visits[1])
    /\ ~visits[1].lab_completed /\ ~visits[1].pharmacy_completed

\* C6: a flag of a stored Visit that is true is true after every step.
C6_Monotonic ==
    [][\A v \in Stored(visits) \cap Stored(visits'), f \in Flags :
          visits[v][f] => visits'[v][f]]_vars

\* C7: the save of an update_status that sets a stage to true stores that
\* stage as true, loses no other stage that is true in the stored row (set by
\* the concurrent update_status), and leaves visit_completed true when the
\* four gating flags are.
C7_NoLostUpdate ==
    [][\A p \in Workers :
          ( /\ Step(p, "update_status", "save")
            /\ req[p].arg.status_field \in StatusFields
            /\ req[p].arg.status_value = TRUE
            /\ req[p].pk \in Stored(visits) )
          => /\ visits'[req[p].pk][req[p].arg.status_field]
             /\ \A g \in StatusFields : visits[req[p].pk][g] => visits'[req[p].pk][g]
             /\ Gates(visits'[req[p].pk]) => visits'[req[p].pk].visit_completed]_vars

\* C8: update_status with a name that is not one of the six stages answers
\* 400 and leaves every Visit as it is.
C8_InvalidStage ==
    [][\A p \in Workers :
          (Step(p, "update_status", "save") /\ req[p].arg.status_field \notin StatusFields)
          => /\ response' = [op |-> "update_status", status |-> 400]
             /\ visits' = visits]_vars

C8_Witness ==
    /\ response = [op |-> "update_status", status |-> 400]
    /\ events > 0

\* the patient_id text of number n in year y: "P-", the year, "-", the
\* decimal digits of n, zero-padded to three and never longer than needed
IsPatientId(id, y, n) ==
    /\ Len(id) >= 10
    /\ id[1] = "P" /\ id[2] = "-" /\ id[7] = "-"
    /\ \A i \in (3..6) \cup (8..Len(id)) : \E d \in 1..10 : DigitChar[d] = id[i]
    /\ ParseInt(SubSeq(id, 3, 6)) = y
    /\ ParseInt(SubSeq(id, 8, Len(id))) = n
    /\ Len(id) > 10 => id[8] # "0"

HighestKey == CHOOSE k \in Stored(patients) : \A j \in Stored(patients) : j <= k

\* C9: the create's allocation computes, from the rows it reads, the number
\* after the numeric suffix of the row with the highest pk (whatever its
\* year), or PATIENT_ID_START on an empty table, and formats it with the
\* current year; its INSERT stores that patient_id.
C9_SequenceRule ==
    [][\A p \in Workers :
          /\ (req[p].pc = "idle" /\ req'[p].pc = "insert") =>
                IsPatientId(req'[p].obj.patient_id, Year(now),
                    IF Stored(patients) = {} THEN start
                    ELSE ParseInt(LastSegment(patients[HighestKey].patient_id)) + 1)
          /\ (Step(p, "create", "insert") /\ nextPatientPk' # nextPatientPk) =>
                patients'[nextPatientPk].patient_id = req[p].obj.patient_id]_vars

C9_Witness ==
    /\ Stored(patients) = {1, 2}
    /\ SubSeq(patients[1].patient_id, 3, 6) # SubSeq(patients[2].patient_id, 3, 6)
    /\ ParseInt(LastSegment(patients[2].patient_id)) = ParseInt(LastSegment(patients[1].patient_id)) + 1
    /\ Len(patients[2].patient_id) > Len(patients[1].patient_id)

\* C10: a stored Patient keeps its patient_id and registration_date in every
\* step, and the saves of update, check_in and the combined create write the
\* row of the instance's pk: they take no new pk and issue no patient_id.
C10_Immutable ==
    [][/\ \A k \in Stored(patients) \cap Stored(patients') :
            /\ patients'[k].patient_id = patients[k].patient_id
            /\ patients'[k].registration_date = patients[k].registration_date
       /\ \A p \in Workers :
            (Step(p, "update", "save") \/ Step(p, "check_in", "resave") \/ Step(p, "create", "resave"))
            => /\ nextPatientPk' = nextPatientPk
               /\ issued' = issued
               /\ Stored(patients') \ Stored(patients) \subseteq {req[p].pk}]_vars

C10_Witness ==
    \E k \in Stored(patients) :
        /\ patients[k].last_visit_date = {now}
        /\ patients[k].registration_date < now
        /\ response.status \in {200, 201}
        /\ response.op \in {"update", "check_in"}

----------------------------------------------------------------------------
\* C11: a check_in whose visit data is valid stores exactly one new Visit, of
\* that Patient, with checked_in true and the six other flags false, and its
\* patient.save() that succeeds leaves the Patient with last_visit_date = now;
\* a check_in whose visit data is invalid answers 400 and changes neither the
\* visits nor the patients.
C11_CheckIn ==
    [][\A p \in Workers :
        /\ Step(p, "check_in", "visit") /\ req'[p].pc = "resave" =>
              /\ Stored(visits') \ Stored(visits) = {nextVisitPk}
              /\ \A v \in Stored(visits) : visits'[v] = visits[v]
              /\ visits'[nextVisitPk].patient = req[p].pk
              /\ visits'[nextVisitPk].checked_in
              /\ \A f \in Flags \ {"checked_in"} : ~visits'[nextVisitPk][f]
        /\ Step(p, "check_in", "visit") /\ req'[p].pc = "idle" =>
              /\ ~req[p].arg.reason_ok \/ req[p].pk \notin Stored(patients)
              /\ response'.status = 400
              /\ UNCHANGED <<visits, patients>>
        /\ Step(p, "check_in", "resave") /\ response'.status = 201 =>
              /\ req[p].pk \in Stored(patients')
              /\ patients'[req[p].pk].last_visit_date = {now}
              /\ UNCHANGED visits
        /\ Step(p, "check_in", "visit") \/ Step(p, "check_in", "resave") =>
              req[p].arg.reason_ok \/ req[p].pc = "visit"]_vars

\* a check_in was answered 201: its Visit and the Patient's last_visit_date
C11_Witness ==
    /\ response = [op |-> "check_in", status |-> 201]
    /\ \E v \in Stored(visits) :
          /\ visits[v] = [NewVisit(visits[v].patient) EXCEPT !.checked_in = TRUE]
          /\ visits[v].patient \in Stored(patients)
          /\ patients[visits[v].patient].last_visit_date = {now}

----------------------------------------------------------------------------
\* C12: a combined creation whose patient draft is valid and whose visit draft
\* is not (the Patient being stored when the visit step runs) answers 201,
\* leaves the Patient stored as it is, with its patient_id, and stores no
\* Visit; and a combined creation writes the patients table, after its INSERT,
\* only in the patient.save() that follows the storing of its Visit.
C12_ToleratesVisitFailure ==
    [][\A p \in Workers :
        /\ /\ Step(p, "create", "visit")
           /\ req[p].arg.visit_data \in {"invalid", "malformed"}
           /\ req[p].pk \in Stored(patients)
           => /\ response' = [op |-> "create", status |-> 201]
              /\ req'[p] = Idle
              /\ patients[req[p].pk].patient_id # <<>>
              /\ UNCHANGED <<patients, visits>>
        /\ Step(p, "create", "visit") => UNCHANGED patients
        /\ Step(p, "create", "resave") => req[p].arg.visit_data = "valid"]_vars

----------------------------------------------------------------------------
\* C13: every stored MedicalHistory row that has a Visit has the Patient of
\* that Visit (a create that names the Visit of another Patient stores no
\* record).
C13_HistoryOfOwnPatient ==
    \A h \in Stored(history) :
        history[h].visit \in Stored(visits) =>
            visits[history[h].visit].patient = history[h].patient

----------------------------------------------------------------------------
\* C14: a stored Patient's last_visit_date changes only in the patient.save()
\* of a check_in or of a combined creation, for that Patient, which follows
\* the storing of the Visit; no other step, a Patient update with any patch
\* included, changes it.
C14_LastVisitDateFrame ==
    [][\A k \in Stored(patients) \cap Stored(patients') :
          patients'[k].last_visit_date # patients[k].last_visit_date =>
              \E p \in Workers :
                  /\ req[p].pk = k
                  /\ Step(p, "check_in", "resave") \/ Step(p, "create", "resave")]_vars

----------------------------------------------------------------------------
\* C15: with update_status calls served one after the other, a Visit whose
\* visit_completed is true has visit_completed true after every step, whatever
\* the status_field and the status_value of the call.
C15_CompletedSticky ==
    [][\A v \in Stored(visits) \cap Stored(visits') :
          visits[v].visit_completed => visits'[v].visit_completed]_vars

\* update_status has completed a Visit, and a later call has set one of the
\* four gating flags to false: the Visit is still completed
C15_Witness ==
    /\ response = [op |-> "update_status", status |-> 200]
    /\ \E v \in Stored(visits) : visits[v].visit_completed /\ ~Gates(visits[v])

============================================================================
